---- MODULE Spec2Model ----
(***************************************************************************)
(* Model of jn_utils_segmentation.py: the label remapping (relabel), the   *)
(* per-image inference pipeline (evaluate), the dataset enumeration        *)
(* (load_dataset) and the recursive freeze of the base network (_freeze).  *)
(*                                                                         *)
(* The functions share no state, so a behaviour exercises one of them:     *)
(* Init chooses the function under study (unit) and its arguments, and the *)
(* actions of the other functions are disabled.                            *)
(***************************************************************************)
EXTENDS Integers, Sequences, FiniteSets, TLC

VARIABLES
    unit,        \* which function this behaviour runs
    \* ---- relabel(img)
    bufs,        \* the numpy buffers: buffer id -> flattened array of uint8
    img,         \* relabel's parameter: the id of the buffer passed in
    img0,        \* contents of that buffer when relabel was called
    line,        \* next substitution statement of relabel (index into Rules)
    ret,         \* id of the buffer relabel returned, NoBuf before the return
    \* ---- evaluate(args, model, image_list, device)
    dataset,     \* args.dataset
    image_list,  \* the paths to process, each a sequence of characters
    i,           \* position in image_list of the image being processed (from 1)
    stage,       \* last pipeline stage completed for image i
    trace,       \* the stages image i has gone through, in order
    img_out,     \* the label map of image i, <<>> before the arg-max
    saved,       \* the files written so far: <<input path, output path>> per save
    \* ---- load_dataset(args)   (dataset and image_list as above)
    fs,          \* the file system under args.data_path
    runs,        \* how many times load_dataset is run on this file system
    run,         \* the run in progress
    pc,          \* position in load_dataset
    lineno,      \* next line of the manifest to read
    enumerated,  \* image_list as enumerated, before the truncation
    outcome,     \* how the run ended: "running" until it has
    message,     \* the diagnostic printed: <<text, path>>
    first,       \* <<outcome, image_list>> of the first run, once a second has begun
    \* ---- freeze_base(model), unfreeze_base(model)
    parent,      \* the module tree of model.base_net: parent[m] of module m > 1
    owner,       \* owner[p]: the module parameter p is registered in
    requires_grad, \* requires_grad[p] of parameter p
    calls        \* the last two calls made, oldest first: "freeze" or "unfreeze"

relabelVars == <<bufs, img, img0, line, ret>>
evalVars == <<i, stage, trace, img_out, saved>>
loadVars == <<fs, runs, run, pc, lineno, enumerated, outcome, message, first>>
freezeVars == <<parent, owner, requires_grad, calls>>
vars == <<unit, dataset, image_list, relabelVars, evalVars, loadVars, freezeVars>>

-----------------------------------------------------------------------------
(* Values of the variables of the functions a behaviour does not run.      *)

RelabelIdle ==
    /\ bufs = <<>> /\ img = 0 /\ img0 = <<>> /\ line = 0 /\ ret = 0

EvalIdle ==
    /\ i = 0 /\ stage = "" /\ trace = <<>> /\ img_out = <<>> /\ saved = <<>>

ArgsIdle ==
    /\ dataset = "" /\ image_list = <<>>

LoadIdle ==
    /\ fs = <<>> /\ runs = 0 /\ run = 0 /\ pc = "" /\ lineno = 0 /\ enumerated = <<>>
    /\ outcome = "" /\ message = <<>> /\ first = <<>>

FreezeIdle ==
    /\ parent = <<>> /\ owner = <<>> /\ requires_grad = <<>> /\ calls = <<>>

-----------------------------------------------------------------------------
(* relabel                                                                 *)

\* Longest array (besides the all-values array) handed to relabel.
MaxLen == 2

NoBuf == 0
BufIds == {1, 2}

\* The substitution statements of relabel, in program order: <<source, destination>>.
Rules ==
    << <<19, 255>>, <<18, 33>>, <<17, 32>>, <<16, 31>>, <<15, 28>>, <<14, 27>>,
       <<13, 26>>, <<12, 25>>, <<11, 24>>, <<10, 23>>, <<9, 22>>, <<8, 21>>,
       <<7, 20>>, <<6, 19>>, <<5, 17>>, <<4, 13>>, <<3, 12>>, <<2, 11>>,
       <<1, 8>>, <<0, 7>>, <<255, 0>> >>

Domain == {Rules[k][1] : k \in 1..Len(Rules)}

\* The array holding every domain value exactly once: 0, 1, ..., 19, 255.
AllDomain == [k \in 1..Len(Rules) |-> IF k = Len(Rules) THEN 255 ELSE k - 1]

\* Label values relabel is exercised on: the domain and one value outside it.
PixelVals == Domain \cup {100}

RelabelInputs ==
    {AllDomain} \cup UNION {[1..n -> PixelVals] : n \in 1..MaxLen}

\* img[img == src] = dst : every cell equal to src is overwritten, in place.
Assign(arr, src, dst) ==
    [k \in 1..Len(arr) |-> IF arr[k] = src THEN dst ELSE arr[k]]

InitRelabel ==
    /\ unit = "relabel"
    /\ ArgsIdle /\ EvalIdle /\ LoadIdle /\ FreezeIdle
    /\ \E a \in RelabelInputs : /\ bufs = [b \in BufIds |-> IF b = 1 THEN a ELSE <<>>]
                                /\ img0 = a
    /\ img = 1
    /\ line = 1
    /\ ret = NoBuf

\* One statement  img[img == s] = d  of relabel.
RelabelStep ==
    /\ unit = "relabel"
    /\ line <= Len(Rules)
    /\ bufs' = [bufs EXCEPT ![img] = Assign(bufs[img], Rules[line][1], Rules[line][2])]
    /\ line' = line + 1
    /\ UNCHANGED <<unit, img, img0, ret, dataset, image_list, evalVars, loadVars, freezeVars>>

\* return img
RelabelReturn ==
    /\ unit = "relabel"
    /\ line = Len(Rules) + 1
    /\ ret = NoBuf
    /\ ret' = img
    /\ UNCHANGED <<unit, bufs, img, img0, line, dataset, image_list, evalVars, loadVars,
                   freezeVars>>

\* relabel as its caller sees it: the statements from statement k on, in order.
RECURSIVE FromStatement(_, _)
FromStatement(arr, k) ==
    IF k > Len(Rules) THEN arr
    ELSE FromStatement(Assign(arr, Rules[k][1], Rules[k][2]), k + 1)

relabel(arr) == FromStatement(arr, 1)

-----------------------------------------------------------------------------
(* evaluate                                                                *)

\* Longest file name, and longest list of several images, given to evaluate.
MaxNameLen == 3
MaxImages == 2

Png == <<"p", "n", "g">>
Slash == "/"
Dot == "."

\* args.savedir
SaveDir == <<"s">>

NameChars == {"a", "j", Dot}
Dirs == {<<"d">>, <<"e">>}

\* The label maps the arg-max of the model's scores may give: one pixel.
LabelMaps == {<<v>> : v \in PixelVals}

\* File names: non-empty, and not one of the directory entries "." and "..".
Names ==
    UNION {[1..n -> NameChars] : n \in 1..MaxNameLen} \ {<<Dot>>, <<Dot, Dot>>}

Paths == {d \o <<Slash>> \o n : d \in Dirs, n \in Names}

\* The images of the lists of several images.
SamplePaths ==
    {d \o <<Slash>> \o n : d \in Dirs, n \in {<<"a", Dot, "j">>, <<"j", Dot, "j">>}}

Distinct(s) == \A a, b \in 1..Len(s) : a # b => s[a] # s[b]

ImageLists ==
    {<<>>} \cup {<<p>> : p \in Paths}
        \cup {s \in UNION {[1..n -> SamplePaths] : n \in 2..MaxImages} : Distinct(s)}

\* s.split(sep)[-1] : what follows the last sep of s, all of s when it has none.
RECURSIVE SplitLast(_, _)
SplitLast(s, sep) ==
    IF \E k \in 1..Len(s) : s[k] = sep
    THEN LET k == CHOOSE k \in 1..Len(s) :
                      s[k] = sep /\ \A m \in (k + 1)..Len(s) : s[m] # sep
         IN  SubSeq(s, k + 1, Len(s))
    ELSE s

\* s.replace(old, new) : every non-overlapping occurrence of old, from the left;
\* an empty old matches before every character and at the end.
RECURSIVE Replace(_, _, _)
Replace(s, old, new) ==
    IF old = <<>>
    THEN IF s = <<>> THEN new ELSE new \o <<Head(s)>> \o Replace(Tail(s), old, new)
    ELSE IF Len(s) < Len(old) THEN s
    ELSE IF SubSeq(s, 1, Len(old)) = old
         THEN new \o Replace(SubSeq(s, Len(old) + 1, Len(s)), old, new)
         ELSE <<Head(s)>> \o Replace(Tail(s), old, new)

\* '{}/{}'.format(args.savedir, name.replace(img_extn, 'png'))
OutName(imgName) ==
    LET name == SplitLast(imgName, Slash)
        img_extn == SplitLast(imgName, Dot)
    IN  SaveDir \o <<Slash>> \o Replace(name, img_extn, Png)

\* Following, with the relabelling of 'city' predictions left out.
FollowingNoRelabel(ds, st) ==
    CASE st = "START" -> "LOADED"
      [] st = "LOADED" -> "PREPROCESSED"
      [] st = "PREPROCESSED" -> "INFERRED"
      [] st = "INFERRED" -> "LABELMAPPED"
      [] st = "LABELMAPPED" -> "RESIZED"
      [] st = "RESIZED" -> IF ds = "pascal" THEN "PALETTED" ELSE "WRITTEN"
      [] st = "PALETTED" -> "WRITTEN"
      [] OTHER -> "START"

\* The statement of the loop body that runs after stage st.
Following(ds, st) ==
    CASE st = "START" -> "LOADED"
      [] st = "LOADED" -> "PREPROCESSED"
      [] st = "PREPROCESSED" -> "INFERRED"
      [] st = "INFERRED" -> "LABELMAPPED"
      [] st = "LABELMAPPED" -> IF ds = "city" THEN "RELABELED" ELSE "RESIZED"
      [] st = "RELABELED" -> "RESIZED"
      [] st = "RESIZED" -> IF ds = "pascal" THEN "PALETTED" ELSE "WRITTEN"
      [] st = "PALETTED" -> "WRITTEN"
      [] OTHER -> "START"

InitEvaluate ==
    /\ unit = "evaluate"
    /\ RelabelIdle /\ LoadIdle /\ FreezeIdle
    /\ dataset \in {"city", "pascal"}
    /\ image_list \in ImageLists
    /\ i = 1
    /\ stage = "START"
    /\ trace = <<>>
    /\ img_out = <<>>
    /\ saved = <<>>

\* Image i completes stage `to`.
Advance(to) ==
    /\ stage' = to
    /\ trace' = Append(trace, to)
    /\ UNCHANGED <<unit, dataset, image_list, i, relabelVars, loadVars, freezeVars>>

\* The loop body is at the statement that completes stage `to` of image i.
InLoop(to) ==
    /\ unit = "evaluate"
    /\ i <= Len(image_list)
    /\ Following(dataset, stage) = to

\* img = Image.open(imgName).convert('RGB'); w, h = img.size
Load ==
    /\ InLoop("LOADED")
    /\ Advance("LOADED")
    /\ img_out' = <<>>
    /\ UNCHANGED saved

\* img = data_transform(img, im_size); unsqueeze; to(device)
Preprocess ==
    /\ InLoop("PREPROCESSED")
    /\ Advance("PREPROCESSED")
    /\ UNCHANGED img_out
    /\ UNCHANGED saved

\* img_out = model(img); squeeze
Infer ==
    /\ InLoop("INFERRED")
    /\ Advance("INFERRED")
    /\ UNCHANGED img_out
    /\ UNCHANGED saved

\* img_out = img_out.max(0)[1].byte(); to cpu; numpy
LabelMap ==
    /\ InLoop("LABELMAPPED")
    /\ Advance("LABELMAPPED")
    /\ img_out' \in LabelMaps
    /\ UNCHANGED saved

\* if args.dataset == 'city': img_out = relabel(img_out)
Relabel ==
    /\ InLoop("RELABELED")
    /\ Advance("RELABELED")
    /\ img_out' = relabel(img_out)
    /\ UNCHANGED saved

\* img_out = Image.fromarray(img_out); img_out = img_out.resize((w, h), Image.NEAREST)
Resize ==
    /\ InLoop("RESIZED")
    /\ Advance("RESIZED")
    /\ UNCHANGED img_out
    /\ UNCHANGED saved

\* if args.dataset == 'pascal': img_out.putpalette(cmap)
PutPalette ==
    /\ InLoop("PALETTED")
    /\ Advance("PALETTED")
    /\ UNCHANGED img_out
    /\ UNCHANGED saved

\* name = ...; img_out.save(name)
Save ==
    /\ InLoop("WRITTEN")
    /\ Advance("WRITTEN")
    /\ UNCHANGED img_out
    /\ saved' = Append(saved, <<image_list[i], OutName(image_list[i])>>)

\* the for loop takes the next image
NextImage ==
    /\ unit = "evaluate"
    /\ stage = "WRITTEN"
    /\ i' = i + 1
    /\ stage' = "START"
    /\ trace' = <<>>
    /\ UNCHANGED <<unit, dataset, image_list, img_out, saved, relabelVars, loadVars,
                   freezeVars>>

EvaluateDone == unit = "evaluate" /\ i = Len(image_list) + 1

\* The files the output directory holds.
OutputFiles == {saved[k][2] : k \in 1..Len(saved)}

-----------------------------------------------------------------------------
(* load_dataset                                                            *)

\* image_list = image_list[:5]
TruncateLen == 5

\* Most files in the scanned directory, and most lines in the manifest.
MaxFiles == 6
\* The same, when load_dataset is run twice on the file system.
MaxScan == 3

\* The images a manifest may list (it lists one identifier per line).
ManifestImages == {1, 2}

\* The permutations of a finite set, as sequences.
Perms(S) ==
    {s \in [1..Cardinality(S) -> S] : \A a, b \in 1..Cardinality(S) : a # b => s[a] # s[b]}

\* File systems with at most n matching files and at most n manifest lines:
\* dir is the set of files matching leftImg8bit/<split>/*/*.png, has_manifest and
\* manifest are the file VOC2012/list/<split>.txt and its lines, present is the set
\* of listed images that exist.
FileSystems(n) ==
    {[dir |-> 1..d, has_manifest |-> h, manifest |-> m, present |-> e] :
        d \in 0..n, h \in BOOLEAN,
        m \in UNION {[1..k -> ManifestImages] : k \in 0..n},
        e \in SUBSET ManifestImages}

\* glob.glob(image_path): the matching files in the order the directory scan
\* yields them; glob returns them in arbitrary order and load_dataset keeps it.
Glob(files) == Perms(files)

\* Truncated, with the slice left out.
TruncatedKeepAll(l) == l

\* image_list[:5]
Truncated(l) == SubSeq(l, 1, IF Len(l) < TruncateLen THEN Len(l) ELSE TruncateLen)

\* utilities.print_utils.print_error_message: prints the diagnostic and ends the run.
print_error_message(text, path) ==
    /\ outcome' = "config_error"
    /\ message' = <<text, path>>
    /\ pc' = "exit"

InitLoad ==
    /\ unit = "load_dataset"
    /\ RelabelIdle /\ EvalIdle /\ FreezeIdle
    /\ dataset \in {"city", "pascal", "other"}
    /\ \/ runs = 1 /\ fs \in FileSystems(MaxFiles)
       \/ runs = 2 /\ fs \in FileSystems(MaxScan)
    /\ (dataset # "pascal" => /\ ~fs.has_manifest /\ fs.manifest = <<>> /\ fs.present = {})
    /\ (dataset # "city" => fs.dir = {})
    /\ (~fs.has_manifest => fs.manifest = <<>>)
    /\ run = 1
    /\ pc = "start"
    /\ lineno = 1
    /\ image_list = <<>>
    /\ enumerated = <<>>
    /\ outcome = "running"
    /\ message = <<>>
    /\ first = <<>>

\* if args.dataset == 'city': image_list = glob.glob(image_path)
ScanCity ==
    /\ unit = "load_dataset" /\ pc = "start"
    /\ dataset = "city"
    /\ image_list' \in Glob(fs.dir)
    /\ pc' = "check"
    /\ UNCHANGED <<unit, dataset, fs, runs, run, lineno, enumerated, outcome, message,
                   first, relabelVars, evalVars, freezeVars>>

\* elif args.dataset == 'pascal': the manifest is looked up and opened
OpenManifest ==
    /\ unit = "load_dataset" /\ pc = "start"
    /\ dataset = "pascal"
    /\ IF ~fs.has_manifest
       THEN /\ print_error_message("file does not exist", "manifest")
            /\ UNCHANGED image_list
       ELSE /\ image_list' = <<>>
            /\ pc' = "lines"
            /\ UNCHANGED <<outcome, message>>
    /\ UNCHANGED <<unit, dataset, fs, runs, run, lineno, enumerated, first,
                   relabelVars, evalVars, freezeVars>>

\* ReadLine, with the os.path.isfile test of the image left out.
ReadLineNoCheck ==
    /\ unit = "load_dataset" /\ pc = "lines"
    /\ lineno <= Len(fs.manifest)
    /\ image_list' = Append(image_list, fs.manifest[lineno])
    /\ lineno' = lineno + 1
    /\ UNCHANGED <<unit, dataset, fs, runs, run, enumerated, first, outcome, message, pc,
                   relabelVars, evalVars, freezeVars>>

\* for line in lines: one line of the manifest
ReadLine ==
    /\ unit = "load_dataset" /\ pc = "lines"
    /\ lineno <= Len(fs.manifest)
    /\ LET rgb_img_loc == fs.manifest[lineno]
       IN  IF rgb_img_loc \notin fs.present
           THEN /\ print_error_message("image file does not exist", rgb_img_loc)
                /\ UNCHANGED <<image_list, lineno>>
           ELSE /\ image_list' = Append(image_list, rgb_img_loc)
                /\ lineno' = lineno + 1
                /\ UNCHANGED <<outcome, message, pc>>
    /\ UNCHANGED <<unit, dataset, fs, runs, run, enumerated, first,
                   relabelVars, evalVars, freezeVars>>

\* the manifest is exhausted
EndOfManifest ==
    /\ unit = "load_dataset" /\ pc = "lines"
    /\ lineno = Len(fs.manifest) + 1
    /\ pc' = "check"
    /\ UNCHANGED <<unit, dataset, image_list, fs, runs, run, lineno, enumerated, outcome,
                   message, first, relabelVars, evalVars, freezeVars>>

\* else: print_error_message('{} dataset not yet supported')
Unsupported ==
    /\ unit = "load_dataset" /\ pc = "start"
    /\ dataset \notin {"city", "pascal"}
    /\ print_error_message("dataset not yet supported", dataset)
    /\ UNCHANGED <<unit, dataset, image_list, fs, runs, run, lineno, enumerated, first,
                   relabelVars, evalVars, freezeVars>>

\* if len(image_list) == 0: print_error_message('No files ...'.format(image_path))
\* image_path is assigned in the 'city' branch only: in the 'pascal' branch the
\* argument of the call raises UnboundLocalError before the call is made.
CheckEmpty ==
    /\ unit = "load_dataset" /\ pc = "check"
    /\ IF Len(image_list) = 0
       THEN IF dataset = "city"
            THEN print_error_message("No files in directory", "image_path")
            ELSE /\ outcome' = "UnboundLocalError"
                 /\ pc' = "exit"
                 /\ UNCHANGED message
       ELSE /\ pc' = "truncate"
            /\ UNCHANGED <<outcome, message>>
    /\ UNCHANGED <<unit, dataset, image_list, fs, runs, run, lineno, enumerated, first,
                   relabelVars, evalVars, freezeVars>>

\* image_list = image_list[:5]; print_info_message(...); return image_list
TruncateAndReturn ==
    /\ unit = "load_dataset" /\ pc = "truncate"
    /\ enumerated' = image_list
    /\ image_list' = Truncated(image_list)
    /\ outcome' = "returned"
    /\ pc' = "exit"
    /\ UNCHANGED <<unit, dataset, fs, runs, run, lineno, message, first,
                   relabelVars, evalVars, freezeVars>>

\* load_dataset is run again with the same arguments on the unchanged file system
RunAgain ==
    /\ unit = "load_dataset" /\ pc = "exit"
    /\ run < runs
    /\ first' = <<outcome, image_list>>
    /\ run' = run + 1
    /\ pc' = "start"
    /\ lineno' = 1
    /\ image_list' = <<>>
    /\ enumerated' = <<>>
    /\ outcome' = "running"
    /\ message' = <<>>
    /\ UNCHANGED <<unit, dataset, fs, runs, relabelVars, evalVars, freezeVars>>

-----------------------------------------------------------------------------
(* _freeze, freeze_base, unfreeze_base                                     *)

\* Most modules in the tree of model.base_net (module 1 is base_net itself), and
\* most parameters registered in them.
MaxModules == 3
MaxParams == 2

Children(m) == {c \in DOMAIN parent : c > 1 /\ parent[c] = m}

\* Module k lies in the subtree rooted at module m.
RECURSIVE Under(_, _)
Under(k, m) == k = m \/ (k > 1 /\ Under(parent[k], m))

\* child.parameters(): the parameters of the child and of every module below it.
Parameters(m) == {p \in DOMAIN owner : Under(owner[p], m)}

\* def _freeze(model, freeze=True):
\*     for name, child in model.named_children():
\*         for param in child.parameters(): param.requires_grad = not freeze
\*         _freeze(child, freeze=freeze)
RECURSIVE _freeze(_, _, _), ForChildren(_, _, _)
ForChildren(cs, rg, freeze) ==
    IF cs = {} THEN rg
    ELSE LET child == CHOOSE c \in cs : \A d \in cs : c <= d
             set == [p \in DOMAIN rg |->
                        IF p \in Parameters(child) THEN ~freeze ELSE rg[p]]
         IN  ForChildren(cs \ {child}, _freeze(child, set, freeze), freeze)

_freeze(model, rg, freeze) == ForChildren(Children(model), rg, freeze)

base_net == 1

\* Module trees: the parent of module m > 1 is a module created before it.
Trees(n) == {t \in [1..n -> 0..n] : t[1] = 0 /\ \A m \in 2..n : t[m] \in 1..(m - 1)}

LastTwo(s) == IF Len(s) <= 2 THEN s ELSE SubSeq(s, Len(s) - 1, Len(s))

InitFreeze ==
    /\ unit = "freeze"
    /\ ArgsIdle /\ RelabelIdle /\ EvalIdle /\ LoadIdle
    /\ \E n \in 1..MaxModules, k \in 0..MaxParams :
          /\ parent \in Trees(n)
          /\ owner \in [1..k -> 1..n]
          /\ requires_grad \in [1..k -> BOOLEAN]
    /\ calls = <<>>

\* freeze_base(model): _freeze(model.base_net, freeze=True)
freeze_base ==
    /\ unit = "freeze"
    /\ requires_grad' = _freeze(base_net, requires_grad, TRUE)
    /\ calls' = LastTwo(Append(calls, "freeze"))
    /\ UNCHANGED <<unit, dataset, image_list, parent, owner, relabelVars, evalVars, loadVars>>

\* unfreeze_base(model): _freeze(model.base_net, freeze=False)
unfreeze_base ==
    /\ unit = "freeze"
    /\ requires_grad' = _freeze(base_net, requires_grad, FALSE)
    /\ calls' = LastTwo(Append(calls, "unfreeze"))
    /\ UNCHANGED <<unit, dataset, image_list, parent, owner, relabelVars, evalVars, loadVars>>

-----------------------------------------------------------------------------
Init == InitRelabel \/ InitEvaluate \/ InitLoad \/ InitFreeze

Next ==
    \/ RelabelStep \/ RelabelReturn
    \/ Load \/ Preprocess \/ Infer \/ LabelMap \/ Relabel \/ Resize \/ PutPalette
    \/ Save \/ NextImage
    \/ ScanCity \/ OpenManifest \/ ReadLine \/ EndOfManifest \/ Unsupported
    \/ CheckEmpty \/ TruncateAndReturn \/ RunAgain
    \/ freeze_base \/ unfreeze_base

Spec == Init /\ [][Next]_vars

-----------------------------------------------------------------------------
(* Claims about relabel                                                    *)

\* The documented table applied once to a value.
Table(v) ==
    IF \E k \in 1..Len(Rules) : Rules[k][1] = v
    THEN Rules[CHOOSE k \in 1..Len(Rules) : Rules[k][1] = v][2]
    ELSE v

\* C1: for the array holding every domain value once, relabel returns the
\* table's codomain value at each position (the table applied once to a
\* snapshot of the input).
C1_TableAppliedOnce ==
    (unit = "relabel" /\ ret # NoBuf /\ img0 = AllDomain) =>
        bufs[ret] = [k \in 1..Len(img0) |-> Table(img0[k])]

\* C2: relabel leaves the array passed in as it was and returns a different
\* buffer of the same shape.
C2_FreshBuffer ==
    (unit = "relabel" /\ ret # NoBuf) =>
        /\ bufs[img] = img0
        /\ ret # img
        /\ Len(bufs[ret]) = Len(img0)

-----------------------------------------------------------------------------
(* Claims about evaluate                                                   *)

IsPrefix(s, t) == Len(s) <= Len(t) /\ s = SubSeq(t, 1, Len(s))

Head4 == <<"LOADED", "PREPROCESSED", "INFERRED", "LABELMAPPED">>

\* The order of the stages as claimed: the palette before the resize.
ClaimedStages(ds) ==
    Head4 \o (IF ds = "city" THEN <<"RELABELED">> ELSE <<>>)
          \o (IF ds = "pascal" THEN <<"PALETTED">> ELSE <<>>)
          \o <<"RESIZED", "WRITTEN">>

\* The order with the resize before the palette.
ResizeFirstStages(ds) ==
    Head4 \o (IF ds = "city" THEN <<"RELABELED">> ELSE <<>>)
          \o <<"RESIZED">>
          \o (IF ds = "pascal" THEN <<"PALETTED">> ELSE <<>>)
          \o <<"WRITTEN">>

FileName(path) == SplitLast(path, Slash)

ExtensionReplaced(name) ==
    IF \E k \in 1..Len(name) : name[k] = Dot
    THEN LET k == CHOOSE k \in 1..Len(name) :
                      name[k] = Dot /\ \A m \in (k + 1)..Len(name) : name[m] # Dot
         IN  SubSeq(name, 1, k) \o Png
    ELSE name

\* C7: every file is written to savedir/<file name of the input with only its
\* trailing extension replaced by png>.
C7_ExtensionReplaced ==
    unit = "evaluate" =>
        \A k \in 1..Len(saved) :
            saved[k][2] = SaveDir \o <<Slash>> \o ExtensionReplaced(FileName(saved[k][1]))

\* C8: when evaluate has gone through a list of n distinct paths, the output
\* directory holds n distinct files.
C8_OneFilePerImage ==
    (EvaluateDone /\ Distinct(image_list)) =>
        Cardinality(OutputFiles) = Len(image_list)

-----------------------------------------------------------------------------
(* Claims about load_dataset                                               *)

\* C4: two runs of load_dataset on the same arguments and file system return
\* the same list in the same order.
C4_SameOrderBothRuns ==
    (unit = "load_dataset" /\ run = 2 /\ outcome = "returned" /\ first[1] = "returned") =>
        image_list = first[2]

\* Enumeration finds no image: the scanned directory has no matching file, or
\* the manifest lists nothing.
ZeroImages ==
    \/ dataset = "city" /\ fs.dir = {}
    \/ dataset = "pascal" /\ fs.has_manifest /\ fs.manifest = <<>>

\* C5: for 'city' and 'pascal', when enumeration finds no image the run ends in
\* a configuration error, and no empty list is returned.
C5_ZeroImagesConfigError ==
    (unit = "load_dataset" /\ ZeroImages) =>
        /\ outcome # "returned"
        /\ pc = "exit" => outcome = "config_error"

MissingLines == {k \in 1..Len(fs.manifest) : fs.manifest[k] \notin fs.present}

FirstMissing == CHOOSE k \in MissingLines : \A m \in MissingLines : k <= m

\* C6: for 'pascal', when the manifest lists an image that is not on disk the
\* run ends in a configuration error naming the missing path, and no list is
\* returned.
C6_MissingImageReported ==
    (unit = "load_dataset" /\ dataset = "pascal" /\ fs.has_manifest /\ MissingLines # {}) =>
        /\ outcome # "returned"
        /\ pc = "exit" =>
              /\ outcome = "config_error"
              /\ message = <<"image file does not exist", fs.manifest[FirstMissing]>>

\* A run has ended on a missing image listed after one that exists.
C6_Witness ==
    /\ unit = "load_dataset" /\ dataset = "pascal" /\ pc = "exit"
    /\ MissingLines # {} /\ FirstMissing > 1
    /\ outcome = "config_error"

Min(a, b) == IF a < b THEN a ELSE b

\* What enumeration yields: the scanned files in some order, or the manifest's lines.
IsEnumeration(l) ==
    IF dataset = "city"
    THEN Len(l) = Cardinality(fs.dir) /\ {l[k] : k \in 1..Len(l)} = fs.dir
    ELSE l = fs.manifest

\* C9: whenever load_dataset returns, the list returned is the first min(5, n)
\* of the n enumerated paths, in order.
C9_FirstFive ==
    (unit = "load_dataset" /\ outcome = "returned") =>
        /\ IsEnumeration(enumerated)
        /\ image_list = SubSeq(enumerated, 1, Min(5, Len(enumerated)))

\* A run has returned after enumerating more than five paths.
C9_Witness ==
    /\ unit = "load_dataset" /\ outcome = "returned"
    /\ Len(enumerated) > 5 /\ Len(image_list) = 5

-----------------------------------------------------------------------------
(* Claims about freeze_base and unfreeze_base                              *)

\* C10: after freeze_base no parameter of a module of the base_net tree, at any
\* depth, is trainable, and after an unfreeze_base that follows it every one of
\* them is.
C10_WholeTreeSet ==
    (unit = "freeze" /\ calls # <<>>) =>
        /\ calls[Len(calls)] = "freeze" => \A p \in DOMAIN owner : ~requires_grad[p]
        /\ calls = <<"freeze", "unfreeze">> => \A p \in DOMAIN owner : requires_grad[p]

====
